---- MODULE Spec2Model ----
(***************************************************************************)
(* Model of the PDF conversion micro-service (src/src/server.js).          *)
(*                                                                         *)
(* One /convert request is an async handler; every `await` of the handler  *)
(* is a step of the model.  JavaScript objects are records whose DOMAIN    *)
(* holds exactly the properties that are defined (`x.f ?? d` reads         *)
(* "f \in DOMAIN x" first), strings are TLA+ strings, file names are       *)
(* tuples of one-character strings so that startsWith/endsWith, the        *)
(* regular expression and parseInt are computed character by character.    *)
(***************************************************************************)
EXTENDS Integers, Sequences, FiniteSets, TLC

VARIABLES
    SERVICE_SECRET,  \* process.env.CONVERSION_SERVICE_SECRET || ''
    storage,         \* the storage service: <<bucket, path>> -> object body
    tmpDirs,         \* temp directories that exist under os.tmpdir()
    pc,              \* per request: the await the handler is suspended at
    req,             \* per request: [headers, body] as received
    loc,             \* per request: the handler's local bindings
    response,        \* per request: the response sent (a record), or NoResponse
    trace            \* per request: the external operations attempted, in order

vars == <<SERVICE_SECRET, storage, tmpDirs, pc, req, loc, response, trace>>

-----------------------------------------------------------------------------
(* Bounds of the model.                                                    *)

MaxPages == 2        \* pages of the largest PDF a request converts
MaxVariants == 2     \* length of the longest `variants` list a request sends
MaxFiles == 3        \* files of the largest directory listing that is sorted

Reqs == {1, 2}       \* request slots

Null == "<null>"     \* JavaScript null where a string is expected

-----------------------------------------------------------------------------
(* Small JavaScript helpers.                                               *)

Has(obj, f) == f \in DOMAIN obj

\* obj.f ?? d   (also obj.f?.g ?? d when used on the inner object)
Get(obj, f, d) == IF f \in DOMAIN obj THEN obj[f] ELSE d

\* a validation that only notices an absent property
FalsyOnlyUndefined(obj, f) == ~Has(obj, f)

\* !value for a request field: undefined (no such property) and '' are falsy
Falsy(obj, f) == ~Has(obj, f) \/ obj[f] = ""

Range(s) == {s[i] : i \in DOMAIN s}

Min(a, b) == IF a <= b THEN a ELSE b

DigitChars == <<"0", "1", "2", "3", "4", "5", "6", "7", "8", "9">>

DigitChar(d) == DigitChars[d + 1]

IsDigit(c) == c \in Range(DigitChars)

DigitValue(c) == CHOOSE d \in 0..9 : DigitChars[d + 1] = c

\* String(value) for a non-negative integer
RECURSIVE NumberToString(_)
NumberToString(n) ==
    IF n < 10 THEN DigitChar(n)
    ELSE NumberToString(n \div 10) \o DigitChar(n % 10)

\* str.padStart(size, '0')
RECURSIVE padStart(_, _)
padStart(str, size) ==
    IF Len(str) >= size THEN str ELSE padStart("0" \o str, size)

\* a decimal number as a tuple of digit characters
RECURSIVE NumberChars(_)
NumberChars(n) ==
    IF n < 10 THEN <<DigitChar(n)>>
    ELSE Append(NumberChars(n \div 10), DigitChar(n % 10))

RECURSIVE PadChars(_, _)
PadChars(cs, size) ==
    IF Len(cs) >= size THEN cs ELSE PadChars(<<"0">> \o cs, size)

-----------------------------------------------------------------------------
(* Module-level constants of server.js.                                    *)

DEFAULT_BUCKET == "editions"

VARIANTS ==
    << [key |-> "low", width |-> 900, quality |-> 72],
       [key |-> "medium", width |-> 1400, quality |-> 80],
       [key |-> "high", width |-> 2400, quality |-> 90] >>

THUMBNAIL_VARIANT == [key |-> "thumbnail", width |-> 360, quality |-> 60]

\* value.endsWith('/') ? value : `${value}/`; the argument ends with the
\* bucket name, and no bucket name of the model ends with a slash
ensureTrailingSlash(value) == value \o "/"

padNumber(value) == padStart(NumberToString(value), 3)

\* a path that leaves the edition out
buildStoragePathWithoutEdition(editionId, variant, pageNumber) ==
    "pages/" \o variant \o "/" \o padNumber(pageNumber) \o ".webp"

buildStoragePath(editionId, variant, pageNumber) ==
    editionId \o "/pages/" \o variant \o "/" \o padNumber(pageNumber) \o ".webp"

manifestPathOf(editionId) == editionId \o "/manifest.json"

-----------------------------------------------------------------------------
(* convertPdfToPng: the listing of the output directory, filtered, sorted  *)
(* by the page index embedded in the file name.  A file of the directory   *)
(* is [name |-> <tuple of characters>] plus, when the image library can    *)
(* tell them, the natural width and height of the page image.              *)

Chars_page == <<"p", "a", "g", "e">>
Chars_png == <<".", "p", "n", "g">>

startsWith(cs, prefix) ==
    Len(cs) >= Len(prefix) /\ SubSeq(cs, 1, Len(prefix)) = prefix

endsWith(cs, suffix) ==
    Len(cs) >= Len(suffix) /\ SubSeq(cs, Len(cs) - Len(suffix) + 1, Len(cs)) = suffix

\* the longest run of digits of cs that ends at position `last`
RECURSIVE DigitRun(_, _)
DigitRun(cs, last) ==
    IF last >= 1 /\ IsDigit(cs[last])
    THEN Append(DigitRun(cs, last - 1), cs[last])
    ELSE <<>>

\* a.match(/(\d+)\.png$/)?.[1] ?? '0'
MatchPageDigits(cs) ==
    IF endsWith(cs, Chars_png) /\ DigitRun(cs, Len(cs) - Len(Chars_png)) # <<>>
    THEN DigitRun(cs, Len(cs) - Len(Chars_png))
    ELSE <<"0">>

\* parseInt(digits, 10) for a non-empty tuple of digit characters
RECURSIVE parseInt(_)
parseInt(ds) ==
    IF ds = <<>> THEN 0
    ELSE 10 * parseInt(SubSeq(ds, 1, Len(ds) - 1)) + DigitValue(ds[Len(ds)])

PageIndexOf(cs) == parseInt(MatchPageDigits(cs))

\* the characters of the model's file names in code-unit order
CharOrder == <<"-", ".", "0", "1", "2", "3", "4", "5", "6", "7", "8", "9",
               "a", "e", "g", "n", "p">>

CharRank(c) == CHOOSE i \in 1..Len(CharOrder) : CharOrder[i] = c

\* a < b as strings (what sort() compares with no comparator)
RECURSIVE LexLess(_, _)
LexLess(a, b) ==
    IF a = <<>> THEN b # <<>>
    ELSE IF b = <<>> THEN FALSE
    ELSE IF Head(a) = Head(b) THEN LexLess(Tail(a), Tail(b))
    ELSE CharRank(Head(a)) < CharRank(Head(b))

\* a plausible slip: the names compared as strings
CompareLexicographic(a, b) ==
    IF LexLess(a.name, b.name) THEN -1 ELSE IF LexLess(b.name, a.name) THEN 1 ELSE 0

\* the comparator of line 66-70: pageA - pageB
ComparePages(a, b) == PageIndexOf(a.name) - PageIndexOf(b.name)

\* Array.prototype.sort is stable: x goes after every element it does not
\* compare below
RECURSIVE InsertSorted(_, _)
InsertSorted(sorted, x) ==
    IF sorted = <<>> THEN <<x>>
    ELSE IF ComparePages(x, Head(sorted)) < 0 THEN <<x>> \o sorted
    ELSE <<Head(sorted)>> \o InsertSorted(Tail(sorted), x)

RECURSIVE SortPages(_)
SortPages(files) ==
    IF files = <<>> THEN <<>>
    ELSE InsertSorted(SortPages(SubSeq(files, 1, Len(files) - 1)), files[Len(files)])

FilterPages(files) ==
    SelectSeq(files, LAMBDA f : startsWith(f.name, Chars_page) /\ endsWith(f.name, Chars_png))

\* lines 63-71: readdir's listing -> the page files in page order
PngPagesOf(listing) == SortPages(FilterPages(listing))

-----------------------------------------------------------------------------
(* cloneSharpForVariant: the resize and encode requested from sharp.       *)

\* a renderer that asks for the configured width whatever the page's width
targetWidthUnclamped(metadata, config) == config.width

targetWidthOf(metadata, config) ==
    LET maxWidth == Get(metadata, "width", config.width)
    IN  Min(config.width, maxWidth)

cloneSharpForVariant(input, metadata, config) ==
    [ input |-> input,
      resize |->
          IF Has(config, "height") /\ config.height # 0
          THEN [width |-> targetWidthOf(metadata, config),
                height |-> config.height, fit |-> "cover"]
          ELSE [width |-> targetWidthOf(metadata, config),
                withoutEnlargement |-> TRUE],
      webp |-> [quality |-> config.quality] ]

-----------------------------------------------------------------------------
(* The storage service and the handler's state.                            *)

EmptyObject == [f \in {} |-> Null]

NoResponse == [sent |-> FALSE]

\* an upload that keeps an existing object and stores the new one beside it
UpsertDuplicating(store, bucket, path, body) ==
    LET key == IF <<bucket, path>> \in DOMAIN store
               THEN <<bucket, path \o " (1)">> ELSE <<bucket, path>>
    IN  [k \in DOMAIN store \cup {key} |-> IF k = key THEN body ELSE store[k]]

\* an upload that leaves an existing object as it is
UpsertKeepingFirst(store, bucket, path, body) ==
    [k \in DOMAIN store \cup {<<bucket, path>>} |->
        IF k \in DOMAIN store THEN store[k] ELSE body]

\* upload(..., { upsert: true }): the object at the key is created or replaced
Upsert(store, bucket, path, body) ==
    [k \in DOMAIN store \cup {<<bucket, path>>} |->
        IF k = <<bucket, path>> THEN body ELSE store[k]]

getPublicUrl(supabaseUrl, bucket, storagePath) ==
    supabaseUrl \o "/storage/v1/object/public/" \o bucket \o "/" \o storagePath

\* the bindings of the handler before the request is destructured
LocInit ==
    [ editionId |-> "", pdfUrl |-> "", supabaseUrl |-> "", supabaseKey |-> "",
      bucket |-> "", variants |-> <<>>, thumbnail |-> EmptyObject,
      tempRoot |-> <<>>, listing |-> <<>>, pngPages |-> <<>>,
      index |-> 0, vi |-> 0, pngBuffer |-> EmptyObject, metadata |-> EmptyObject,
      buffer |-> EmptyObject, variantUploads |-> EmptyObject,
      uploads |-> <<>>, manifestPages |-> <<>> ]

\* mkdtemp gives every request a directory name of its own
TempDirOf(r) == <<"pdf-conversion-", r>>

\* the record of what a request did: "receive" (with the requests already
\* answered at that moment), then one event per external operation attempted
Log(r, op, arg, ok) ==
    trace' = [trace EXCEPT ![r] = Append(@, [op |-> op, arg |-> arg, ok |-> ok])]

\* an inner loop that renders the thumbnail before the variants
ConfigAtThumbnailFirst(l) ==
    IF l.vi = 1 THEN l.thumbnail ELSE l.variants[l.vi - 1]

\* the config the inner loop is at: variants[vi], then the thumbnail
ConfigAt(l) ==
    IF l.vi <= Len(l.variants) THEN l.variants[l.vi] ELSE l.thumbnail

pageNumberOf(l) == l.index + 1

\* line 211: page.assets.low?.path ?? page.assets.medium?.path, as the object
\* holding the property (no property when the value is undefined:
\* JSON.stringify drops it)
lowResImagePathOf(assets) ==
    IF Has(assets, "low") THEN [lowResImagePath |-> assets["low"].path]
    ELSE IF Has(assets, "medium") THEN [lowResImagePath |-> assets["medium"].path]
    ELSE EmptyObject

\* line 212
mediumImagePathOf(assets) ==
    IF Has(assets, "medium") THEN assets["medium"].path ELSE Null

\* a manifest whose high-resolution field reads the medium asset
highResImagePathFromMedium(assets) ==
    IF Has(assets, "medium") THEN assets["medium"].path ELSE Null

\* line 213
highResImagePathOf(assets) ==
    IF Has(assets, "high") THEN assets["high"].path ELSE Null

\* a manifest that looks the thumbnail up under the default key
thumbnailPathFixedKey(assets, thumbnailKey) ==
    IF Has(assets, "thumbnail") THEN assets["thumbnail"].path
    ELSE IF Has(assets, "low") THEN assets["low"].path
    ELSE Null

\* line 214
thumbnailPathOf(assets, thumbnailKey) ==
    IF Has(assets, thumbnailKey) THEN assets[thumbnailKey].path
    ELSE IF Has(assets, "low") THEN assets["low"].path
    ELSE Null

\* lines 207-215: one page of the manifest
ManifestPageOf(page, thumbnail) ==
    LET low == lowResImagePathOf(page.assets)
        rest == [ pageNumber |-> page.pageNumber,
                  width |-> page.width,
                  height |-> page.height,
                  mediumImagePath |-> mediumImagePathOf(page.assets),
                  highResImagePath |-> highResImagePathOf(page.assets),
                  thumbnailPath |-> thumbnailPathOf(page.assets, thumbnail.key) ]
    IN  [f \in DOMAIN rest \cup DOMAIN low |->
            IF f \in DOMAIN low THEN low[f] ELSE rest[f]]

\* lines 199-216 (generatedAt, a wall-clock reading, is left out)
BuildManifest(l) ==
    [ edition |-> [id |-> l.editionId, totalPages |-> Len(l.manifestPages)],
      assetsBaseUrl |->
          ensureTrailingSlash(l.supabaseUrl \o "/storage/v1/object/public/" \o l.bucket),
      bucket |-> l.bucket,
      pages |-> [i \in 1..Len(l.manifestPages) |->
                    ManifestPageOf(l.manifestPages[i], l.thumbnail)] ]

-----------------------------------------------------------------------------
(* The /convert handler, one action per await.                             *)

\* lines 232-237: the catch block answers 500 with the error's message
Fail(r, message) ==
    /\ response' = [response EXCEPT ![r] =
           [sent |-> TRUE, status |-> 500, success |-> FALSE, error |-> message]]
    /\ pc' = [pc EXCEPT ![r] = "done"]

\* a handler that validates the fields before it checks the secret
ReceiveValidatingFirst(r, Requests) ==
    /\ pc[r] = "idle"
    /\ \E q \in Requests :
          LET requestSecret == Get(q.headers, "x-api-key", "")
              body == Get(q, "body", EmptyObject)
          IN  /\ req' = [req EXCEPT ![r] = q]
              /\ IF \/ Falsy(body, "editionId") \/ Falsy(body, "pdfUrl")
                    \/ Falsy(body, "supabaseUrl") \/ Falsy(body, "supabaseKey")
                 THEN /\ response' = [response EXCEPT ![r] =
                            [sent |-> TRUE, status |-> 400, success |-> FALSE,
                             error |-> "Missing required parameters (editionId, pdfUrl, supabaseUrl, supabaseKey)"]]
                      /\ pc' = [pc EXCEPT ![r] = "done"]
                      /\ UNCHANGED loc
                 ELSE IF SERVICE_SECRET # "" /\ requestSecret # SERVICE_SECRET
                 THEN /\ response' = [response EXCEPT ![r] =
                            [sent |-> TRUE, status |-> 401, success |-> FALSE,
                             error |-> "Unauthorized"]]
                      /\ pc' = [pc EXCEPT ![r] = "done"]
                      /\ UNCHANGED loc
                 ELSE /\ loc' = [loc EXCEPT ![r] =
                            [LocInit EXCEPT
                                !.editionId = body.editionId,
                                !.pdfUrl = body.pdfUrl,
                                !.supabaseUrl = body.supabaseUrl,
                                !.supabaseKey = body.supabaseKey,
                                !.bucket = Get(body, "bucket", DEFAULT_BUCKET),
                                !.variants = Get(body, "variants", VARIANTS),
                                !.thumbnail = Get(body, "thumbnail", THUMBNAIL_VARIANT)]]
                      /\ pc' = [pc EXCEPT ![r] = "createTempDir"]
                      /\ UNCHANGED response
    /\ Log(r, "receive", {o \in Reqs : pc[o] = "done"}, TRUE)
    /\ UNCHANGED <<SERVICE_SECRET, storage, tmpDirs>>

\* lines 114-139: secret check, destructuring with defaults, validation
Receive(r, Requests) ==
    /\ pc[r] = "idle"
    /\ \E q \in Requests :
          LET requestSecret == Get(q.headers, "x-api-key", "")
              body == Get(q, "body", EmptyObject)
          IN  /\ req' = [req EXCEPT ![r] = q]
              /\ IF SERVICE_SECRET # "" /\ requestSecret # SERVICE_SECRET
                 THEN /\ response' = [response EXCEPT ![r] =
                            [sent |-> TRUE, status |-> 401, success |-> FALSE,
                             error |-> "Unauthorized"]]
                      /\ pc' = [pc EXCEPT ![r] = "done"]
                      /\ UNCHANGED loc
                 ELSE IF \/ Falsy(body, "editionId") \/ Falsy(body, "pdfUrl")
                         \/ Falsy(body, "supabaseUrl") \/ Falsy(body, "supabaseKey")
                 THEN /\ response' = [response EXCEPT ![r] =
                            [sent |-> TRUE, status |-> 400, success |-> FALSE,
                             error |-> "Missing required parameters (editionId, pdfUrl, supabaseUrl, supabaseKey)"]]
                      /\ pc' = [pc EXCEPT ![r] = "done"]
                      /\ UNCHANGED loc
                 ELSE /\ loc' = [loc EXCEPT ![r] =
                            [LocInit EXCEPT
                                !.editionId = body.editionId,
                                !.pdfUrl = body.pdfUrl,
                                !.supabaseUrl = body.supabaseUrl,
                                !.supabaseKey = body.supabaseKey,
                                !.bucket = Get(body, "bucket", DEFAULT_BUCKET),
                                !.variants = Get(body, "variants", VARIANTS),
                                !.thumbnail = Get(body, "thumbnail", THUMBNAIL_VARIANT)]]
                      /\ pc' = [pc EXCEPT ![r] = "createTempDir"]
                      /\ UNCHANGED response
    /\ Log(r, "receive", {o \in Reqs : pc[o] = "done"}, TRUE)
    /\ UNCHANGED <<SERVICE_SECRET, storage, tmpDirs>>

\* lines 41-44, 141: mkdtemp
CreateTempDir(r) ==
    /\ pc[r] = "createTempDir"
    /\ \E ok \in BOOLEAN :
          /\ Log(r, "mkdtemp", TempDirOf(r), ok)
          /\ IF ok
             THEN /\ tmpDirs' = tmpDirs \cup {TempDirOf(r)}
                  /\ loc' = [loc EXCEPT ![r].tempRoot = TempDirOf(r)]
                  /\ pc' = [pc EXCEPT ![r] = "mkdirPng"]
                  /\ UNCHANGED response
             ELSE /\ Fail(r, "mkdtemp failed")
                  /\ UNCHANGED <<tmpDirs, loc>>
    /\ UNCHANGED <<SERVICE_SECRET, storage, req>>

\* lines 142-144: mkdir of the png directory inside the temp directory
MkdirPng(r) ==
    /\ pc[r] = "mkdirPng"
    /\ \E ok \in BOOLEAN :
          /\ Log(r, "mkdir", loc[r].tempRoot, ok)
          /\ IF ok
             THEN pc' = [pc EXCEPT ![r] = "downloadPdf"] /\ UNCHANGED response
             ELSE Fail(r, "mkdir failed")
    /\ UNCHANGED <<SERVICE_SECRET, storage, tmpDirs, req, loc>>

\* lines 74-77, 146: the PDF streamed to the temp directory
DownloadPdf(r) ==
    /\ pc[r] = "downloadPdf"
    /\ \E ok \in BOOLEAN :
          /\ Log(r, "download", loc[r].pdfUrl, ok)
          /\ IF ok
             THEN pc' = [pc EXCEPT ![r] = "convertPdfToPng"] /\ UNCHANGED response
             ELSE Fail(r, "download failed")
    /\ UNCHANGED <<SERVICE_SECRET, storage, tmpDirs, req, loc>>

\* a conversion with no zero-pages check: the page loop runs over nothing
ConvertPdfToPngUnchecked(r, Listings) ==
    /\ pc[r] = "convertPdfToPng"
    /\ \/ /\ Log(r, "pdftoppm", loc[r].pdfUrl, FALSE)
          /\ Fail(r, "pdftoppm failed: spawn pdftoppm ENOENT or exit code 1")
          /\ UNCHANGED loc
       \/ \E listing \in Listings :
             LET pngPages == PngPagesOf(listing)
             IN  /\ Log(r, "pdftoppm", loc[r].pdfUrl, TRUE)
                 /\ loc' = [loc EXCEPT ![r].listing = listing, ![r].pngPages = pngPages]
                 /\ pc' = [pc EXCEPT ![r] =
                        IF Len(pngPages) = 0 THEN "manifestUpload" ELSE "readPage"]
                 /\ UNCHANGED response
    /\ UNCHANGED <<SERVICE_SECRET, storage, tmpDirs, req>>

\* lines 55-72, 148-151: pdftoppm, the directory listing sorted, the
\* zero-pages check.  Listings is what readdir may return for the PDF.
ConvertPdfToPng(r, Listings) ==
    /\ pc[r] = "convertPdfToPng"
    /\ \/ /\ Log(r, "pdftoppm", loc[r].pdfUrl, FALSE)
          /\ Fail(r, "pdftoppm failed: spawn pdftoppm ENOENT or exit code 1")
          /\ UNCHANGED loc
       \/ \E listing \in Listings :
             LET pngPages == PngPagesOf(listing)
             IN  /\ Log(r, "pdftoppm", loc[r].pdfUrl, TRUE)
                 /\ loc' = [loc EXCEPT ![r].listing = listing, ![r].pngPages = pngPages]
                 /\ IF Len(pngPages) = 0
                    THEN Fail(r, "No pages produced during PDF conversion")
                    ELSE pc' = [pc EXCEPT ![r] = "readPage"] /\ UNCHANGED response
    /\ UNCHANGED <<SERVICE_SECRET, storage, tmpDirs, req>>

\* lines 159-165: the page file read and its metadata taken
ReadPage(r) ==
    /\ pc[r] = "readPage"
    /\ LET l == loc[r]
           file == l.pngPages[l.index + 1]
       IN  \E ok \in BOOLEAN :
             /\ Log(r, "readPage", pageNumberOf(l), ok)
             /\ IF ok
                THEN /\ loc' = [loc EXCEPT
                           ![r].pngBuffer = file,
                           ![r].metadata =
                               [f \in DOMAIN file \ {"name"} |-> file[f]],
                           ![r].variantUploads = EmptyObject,
                           ![r].vi = 1]
                     /\ pc' = [pc EXCEPT ![r] = "render"]
                     /\ UNCHANGED response
                ELSE /\ Fail(r, "Input buffer contains unsupported image format")
                     /\ UNCHANGED loc
    /\ UNCHANGED <<SERVICE_SECRET, storage, tmpDirs, req>>

\* lines 168, 180: one variant (or the thumbnail) resized and encoded
Render(r) ==
    /\ pc[r] = "render"
    /\ LET l == loc[r]
           config == ConfigAt(l)
           buffer == cloneSharpForVariant(l.pngBuffer.name, l.metadata, config)
       IN  \E ok \in BOOLEAN :
             /\ Log(r, "resize", [page |-> pageNumberOf(l), key |-> config.key,
                                  resize |-> buffer.resize], ok)
             /\ IF ok
                THEN /\ loc' = [loc EXCEPT ![r].buffer = buffer]
                     /\ pc' = [pc EXCEPT ![r] = "upload"]
                     /\ UNCHANGED response
                ELSE /\ Fail(r, "sharp failed")
                     /\ UNCHANGED loc
    /\ UNCHANGED <<SERVICE_SECRET, storage, tmpDirs, req>>

\* an upload that, on failure, deletes what the request uploaded before
uploadBufferWithRollback(r, bucket, storagePath, buffer, ok) ==
    /\ Log(r, "upload", [path |-> storagePath, body |-> buffer], ok)
    /\ IF ok
       THEN /\ storage' = Upsert(storage, bucket, storagePath, buffer)
            /\ UNCHANGED response
       ELSE /\ Fail(r, "Failed to upload " \o storagePath \o ": storage error")
            /\ storage' = [k \in DOMAIN storage \
                                 {<<bucket, q>> : q \in Range(loc[r].uploads)} |->
                               storage[k]]

\* lines 97-108: upload with upsert; an error of the storage service throws
uploadBuffer(r, bucket, storagePath, buffer, ok) ==
    /\ Log(r, "upload", [path |-> storagePath, body |-> buffer], ok)
    /\ IF ok
       THEN /\ storage' = Upsert(storage, bucket, storagePath, buffer)
            /\ UNCHANGED response
       ELSE /\ Fail(r, "Failed to upload " \o storagePath \o ": storage error")
            /\ UNCHANGED storage

\* lines 191-197: the page pushed, the outer loop advanced
PagePushed(l, assets) ==
    [l EXCEPT
        !.manifestPages = Append(@,
            [ pageNumber |-> pageNumberOf(l),
              width |-> Get(l.metadata, "width", Null),
              height |-> Get(l.metadata, "height", Null),
              assets |-> assets ]),
        !.index = @ + 1]

\* a loop that stops one page early
AfterPageOffByOne(l) ==
    IF l.index + 2 < Len(l.pngPages) THEN "readPage" ELSE "manifestUpload"

\* line 158: the loop condition index < pngPages.length, after index += 1
AfterPage(l) ==
    IF l.index + 1 < Len(l.pngPages) THEN "readPage" ELSE "manifestUpload"

\* lines 169-189: the rendered buffer uploaded and recorded
Upload(r) ==
    /\ pc[r] = "upload"
    /\ LET l == loc[r]
           config == ConfigAt(l)
           storagePath == buildStoragePath(l.editionId, config.key, pageNumberOf(l))
           entry == [path |-> storagePath,
                     publicUrl |-> getPublicUrl(l.supabaseUrl, l.bucket, storagePath)]
           assets == [k \in DOMAIN l.variantUploads \cup {config.key} |->
                         IF k = config.key THEN entry ELSE l.variantUploads[k]]
           recorded == [l EXCEPT !.variantUploads = assets,
                                 !.uploads = Append(@, storagePath)]
       IN  \E ok \in BOOLEAN :
             /\ uploadBuffer(r, l.bucket, storagePath, l.buffer, ok)
             /\ IF ~ok THEN UNCHANGED loc
                ELSE IF l.vi <= Len(l.variants)
                THEN /\ loc' = [loc EXCEPT ![r] = [recorded EXCEPT !.vi = @ + 1]]
                     /\ pc' = [pc EXCEPT ![r] = "render"]
                ELSE /\ loc' = [loc EXCEPT ![r] = PagePushed(recorded, assets)]
                     /\ pc' = [pc EXCEPT ![r] = AfterPage(l)]
    /\ UNCHANGED <<SERVICE_SECRET, tmpDirs, req>>

\* a manifest upload whose error is ignored
ManifestUploadIgnoringError(r) ==
    /\ pc[r] = "manifestUpload"
    /\ LET l == loc[r]
       IN  \E ok \in BOOLEAN :
             /\ Log(r, "upload", [path |-> manifestPathOf(l.editionId),
                                  body |-> BuildManifest(l)], ok)
             /\ storage' = IF ok
                           THEN Upsert(storage, l.bucket, manifestPathOf(l.editionId),
                                       BuildManifest(l))
                           ELSE storage
             /\ pc' = [pc EXCEPT ![r] = "removeDirSafe"]
    /\ UNCHANGED <<SERVICE_SECRET, tmpDirs, req, loc, response>>

\* lines 218-219: the manifest uploaded to {editionId}/manifest.json
ManifestUpload(r) ==
    /\ pc[r] = "manifestUpload"
    /\ LET l == loc[r]
       IN  \E ok \in BOOLEAN :
             /\ uploadBuffer(r, l.bucket, manifestPathOf(l.editionId), BuildManifest(l), ok)
             /\ IF ok THEN pc' = [pc EXCEPT ![r] = "removeDirSafe"] ELSE TRUE
    /\ UNCHANGED <<SERVICE_SECRET, tmpDirs, req, loc>>

\* lines 46-53: rm -rf of the directory; a failure is logged and swallowed
removeDirSafe(r, dirPath, ok) ==
    /\ Log(r, "rm", dirPath, ok)
    /\ tmpDirs' = IF ok THEN tmpDirs \ {dirPath} ELSE tmpDirs

\* a payload whose uploads list also names the manifest
SuccessPayloadListingManifest(l) ==
    [ sent |-> TRUE, status |-> 200, success |-> TRUE,
      editionId |-> l.editionId,
      bucket |-> l.bucket,
      manifestPath |-> manifestPathOf(l.editionId),
      totalPages |-> Len(l.manifestPages),
      pages |-> l.manifestPages,
      uploads |-> Append(l.uploads, manifestPathOf(l.editionId)) ]

\* lines 223-231: the success payload
SuccessPayload(l) ==
    [ sent |-> TRUE, status |-> 200, success |-> TRUE,
      editionId |-> l.editionId,
      bucket |-> l.bucket,
      manifestPath |-> manifestPathOf(l.editionId),
      totalPages |-> Len(BuildManifest(l).pages),
      pages |-> l.manifestPages,
      uploads |-> l.uploads ]

\* a cleanup whose failure is answered as an error
CleanupEscalating(r) ==
    /\ pc[r] = "removeDirSafe"
    /\ \E ok \in BOOLEAN :
          /\ removeDirSafe(r, loc[r].tempRoot, ok)
          /\ response' = [response EXCEPT ![r] =
                 IF ok THEN SuccessPayload(loc[r])
                 ELSE [sent |-> TRUE, status |-> 500, success |-> FALSE,
                       error |-> "rm failed"]]
    /\ pc' = [pc EXCEPT ![r] = "done"]
    /\ UNCHANGED <<SERVICE_SECRET, storage, req, loc>>

\* lines 221-231: cleanup on the success path, then the response
Cleanup(r) ==
    /\ pc[r] = "removeDirSafe"
    /\ \E ok \in BOOLEAN : removeDirSafe(r, loc[r].tempRoot, ok)
    /\ response' = [response EXCEPT ![r] = SuccessPayload(loc[r])]
    /\ pc' = [pc EXCEPT ![r] = "done"]
    /\ UNCHANGED <<SERVICE_SECRET, storage, req, loc>>

-----------------------------------------------------------------------------
(* The requests and the PDFs of the model.                                 *)

Secret == "s3cret"

\* sequences over S of length at most n
SeqsUpTo(S, n) == UNION {[1..k -> S] : k \in 0..n}

\* the orders readdir may list a set of files in
Listings(S) ==
    {f \in [1..Cardinality(S) -> S] : \A i, j \in 1..Cardinality(S) : f[i] = f[j] => i = j}

\* pdftoppm names page i of an n-page PDF page-<i padded to the digits of n>.png
PdftoppmName(i, n) ==
    Chars_page \o <<"-">> \o PadChars(NumberChars(i), Len(NumberChars(n))) \o Chars_png

\* natural sizes of page images; a file with no width is one sharp cannot size
PageImages(name) ==
    { [name |-> name],
      [name |-> name, width |-> 300, height |-> 424] }

\* what the output directory may hold after pdftoppm ran on a PDF of n pages
PdftoppmOutputs(n) ==
    {S \in SUBSET (UNION {PageImages(PdftoppmName(i, n)) : i \in 1..n}) :
        /\ Cardinality(S) = n
        /\ \A i \in 1..n : \E f \in S : f.name = PdftoppmName(i, n)}

PdfListings == UNION {Listings(S) : S \in UNION {PdftoppmOutputs(n) : n \in 0..MaxPages}}

VariantPool ==
    { [key |-> "low", width |-> 900, quality |-> 72],
      [key |-> "medium", width |-> 1400, quality |-> 80],
      [key |-> "high", width |-> 2400, height |-> 3200, quality |-> 90] }

ThumbnailPool ==
    { [key |-> "tiny", width |-> 200, height |-> 300, quality |-> 50],
      [key |-> "low", width |-> 360, quality |-> 60] }

RequiredFields == {"editionId", "pdfUrl", "supabaseUrl", "supabaseKey"}

FullBody ==
    [ editionId |-> "e1", pdfUrl |-> "https://cdn/a.pdf",
      supabaseUrl |-> "https://sb", supabaseKey |-> "service-role-key" ]

WithField(obj, f, v) ==
    [g \in DOMAIN obj \cup {f} |-> IF g = f THEN v ELSE obj[g]]

\* bodies with some required fields missing (no property) or empty
FieldProbeBodies ==
    { [f \in (RequiredFields \ missing) \cup empty |->
          IF f \in empty THEN "" ELSE FullBody[f]] :
      missing \in SUBSET RequiredFields, empty \in SUBSET RequiredFields }

\* bodies that customise variants and/or thumbnail
PipelineBodies ==
    {FullBody}
    \cup {WithField(FullBody, "variants", vs) : vs \in SeqsUpTo(VariantPool, MaxVariants)}
    \cup {WithField(WithField(FullBody, "variants", vs), "thumbnail", th) :
             vs \in SeqsUpTo(VariantPool, MaxVariants), th \in ThumbnailPool}
    \cup {WithField(FullBody, "bucket", "private")}

Headers == {EmptyObject, [f \in {"x-api-key"} |-> Secret], [f \in {"x-api-key"} |-> "wrong"]}

Requests ==
    {[headers |-> EmptyObject, body |-> b] : b \in PipelineBodies \cup FieldProbeBodies}
    \cup {[headers |-> h, body |-> WithField(FullBody, "variants", <<>>)] : h \in Headers}
    \cup {[headers |-> h, body |-> WithField(FullBody, "pdfUrl", "")] : h \in Headers}
    \cup {[headers |-> h] : h \in Headers}

-----------------------------------------------------------------------------
(* Spec: one request, any request of the model, any PDF of the model.      *)

Init ==
    /\ SERVICE_SECRET \in {"", Secret}
    /\ storage = [k \in {} |-> Null]
    /\ tmpDirs = {}
    /\ pc = [r \in Reqs |-> "idle"]
    /\ req = [r \in Reqs |-> EmptyObject]
    /\ loc = [r \in Reqs |-> LocInit]
    /\ response = [r \in Reqs |-> NoResponse]
    /\ trace = [r \in Reqs |-> <<>>]

Step(r, requests, listings) ==
    \/ Receive(r, requests)
    \/ CreateTempDir(r)
    \/ MkdirPng(r)
    \/ DownloadPdf(r)
    \/ ConvertPdfToPng(r, listings)
    \/ ReadPage(r)
    \/ Render(r)
    \/ Upload(r)
    \/ ManifestUpload(r)
    \/ Cleanup(r)

Next == Step(1, Requests, PdfListings)

Spec == Init /\ [][Next]_vars

-----------------------------------------------------------------------------
(* SpecSort: one request with no variants, over output directories whose   *)
(* files are named with or without zero padding and listed in any order.   *)

\* page-<n written with at least `digits` digits>.png
PageName(n, digits) ==
    Chars_page \o <<"-">> \o PadChars(NumberChars(n), digits) \o Chars_png

\* <<page index, digits>> of the file names of the pool
SortPool == {<<1, 1>>, <<2, 1>>, <<2, 2>>, <<9, 1>>, <<10, 2>>}

SortListings ==
    UNION { Listings({[name |-> PageName(nd[1], nd[2]), width |-> 1000, height |-> 1414] :
                        nd \in S}) :
            S \in {T \in SUBSET SortPool :
                     /\ Cardinality(T) <= MaxFiles
                     /\ \A x, y \in T : x[1] = y[1] => x = y} }

SortRequests ==
    {[headers |-> EmptyObject, body |-> WithField(FullBody, "variants", <<>>)]}

NextSort == Step(1, SortRequests, SortListings)

SpecSort == Init /\ [][NextSort]_vars

-----------------------------------------------------------------------------
(* SpecConcurrent: two requests in flight at once (the handler is async:   *)
(* requests interleave at every await), over one storage service.          *)

ConcurrentRequests ==
    {[headers |-> EmptyObject,
      body |-> WithField(WithField(FullBody, "editionId", e), "variants",
                         <<[key |-> "medium", width |-> 1400, quality |-> 80]>>)] :
        e \in {"e1", "e2"}}

ConcurrentListings ==
    {[i \in 1..n |-> [name |-> PdftoppmName(i, n), width |-> 1000, height |-> 1414]] :
        n \in 1..MaxPages}

NextConcurrent == \E r \in Reqs : Step(r, ConcurrentRequests, ConcurrentListings)

SpecConcurrent == Init /\ [][NextConcurrent]_vars

-----------------------------------------------------------------------------
(* Vocabulary of the properties, stated from the request as it was sent    *)
(* and from the record of what the request did.                            *)

Answered(r) == response[r].sent

Succeeded(r) == Answered(r) /\ response[r].success

BodyOf(r) == Get(req[r], "body", EmptyObject)

\* the variant list and thumbnail spec a request asks for
VariantsOf(r) == Get(BodyOf(r), "variants", VARIANTS)
ThumbnailOf(r) == Get(BodyOf(r), "thumbnail", THUMBNAIL_VARIANT)
BucketOf(r) == Get(BodyOf(r), "bucket", "editions")

\* P: the page files the rasterizer left; V: the length of the variant list
P(r) == Len(loc[r].listing)
V(r) == Len(VariantsOf(r))

\* positions of the trace holding an attempt of the operation
Attempts(r, op) == {k \in DOMAIN trace[r] : trace[r][k].op = op}

Did(r, op) == {k \in Attempts(r, op) : trace[r][k].ok}

ThreeDigits(n) == <<"001", "002", "003", "004", "005", "006">>[n]

AssetPath(editionId, key, n) ==
    editionId \o "/pages/" \o key \o "/" \o ThreeDigits(n) \o ".webp"

ManifestPath(r) == BodyOf(r).editionId \o "/manifest.json"

IsManifestUpload(r, k) ==
    trace[r][k].op = "upload" /\ trace[r][k].arg.path = ManifestPath(r)

IsAssetUpload(r, k) ==
    trace[r][k].op = "upload" /\ trace[r][k].arg.path # ManifestPath(r)

\* the request passes the secret check
Authorized(r) ==
    SERVICE_SECRET = "" \/ Get(req[r].headers, "x-api-key", "") = SERVICE_SECRET

MissingField(r) ==
    \E f \in {"editionId", "pdfUrl", "supabaseUrl", "supabaseKey"} :
        f \notin DOMAIN BodyOf(r) \/ BodyOf(r)[f] = ""

-----------------------------------------------------------------------------
\* C1: for every answered request that created a temp directory, the
\* directory no longer exists when the response is sent, whichever step the
\* request ended at.
C1_TempDirGoneAtResponse ==
    \A r \in Reqs :
        (Answered(r) /\ Did(r, "mkdtemp") # {}) => TempDirOf(r) \notin tmpDirs

\* C2: an authorized request missing a required field is answered 400 with
\* success false, having created no temp directory, started no download, run
\* no rasterizer and made no upload.
C2_ValidationFailsFast ==
    \A r \in Reqs :
        (pc[r] # "idle" /\ Authorized(r) /\ MissingField(r)) =>
            /\ Answered(r)
            /\ response[r].status = 400
            /\ response[r].success = FALSE
            /\ \A k \in DOMAIN trace[r] : trace[r][k].op = "receive"
            /\ TempDirOf(r) \notin tmpDirs
            /\ storage = [k \in {} |-> Null]

C2_Witness ==
    \E r \in Reqs :
        /\ Answered(r) /\ Authorized(r)
        /\ "supabaseKey" \notin DOMAIN BodyOf(r)
        /\ "editionId" \in DOMAIN BodyOf(r) /\ BodyOf(r).editionId = ""
        /\ response[r].status = 400

\* C3: the manifest upload of a request comes only after P*(V+1) successful
\* page-asset uploads, one per page and spec, with no failed step before it;
\* after a failed step the request attempts no manifest upload.
C3_NoPartialManifest ==
    \A r \in Reqs : \A k \in DOMAIN trace[r] :
        /\ IsManifestUpload(r, k) =>
              /\ \A j \in 1..(k - 1) : trace[r][j].ok
              /\ Cardinality({j \in 1..(k - 1) : IsAssetUpload(r, j)}) = P(r) * (V(r) + 1)
              /\ \A n \in 1..P(r) : \A i \in 1..(V(r) + 1) :
                    LET spec == IF i <= V(r) THEN VariantsOf(r)[i] ELSE ThumbnailOf(r)
                    IN  \E j \in 1..(k - 1) :
                            /\ IsAssetUpload(r, j)
                            /\ trace[r][j].arg.path = AssetPath(BodyOf(r).editionId, spec.key, n)
        /\ ~trace[r][k].ok =>
              \A j \in DOMAIN trace[r] : j > k => ~IsManifestUpload(r, j)

C3_Witness ==
    \E r \in Reqs :
        /\ \E k \in DOMAIN trace[r] : IsManifestUpload(r, k)
        /\ P(r) = 2 /\ V(r) = 2

\* C4: a successful response has P pages, totalPages = P and P*(V+1) uploads;
\* the request made exactly one manifest upload, to {editionId}/manifest.json,
\* a path that is not among uploads.
C4_Counts ==
    \A r \in Reqs :
        Succeeded(r) =>
            /\ Len(response[r].pages) = P(r)
            /\ response[r].totalPages = P(r)
            /\ Len(response[r].uploads) = P(r) * (V(r) + 1)
            /\ Cardinality({k \in DOMAIN trace[r] : IsManifestUpload(r, k)}) = 1
            /\ response[r].manifestPath = ManifestPath(r)
            /\ \A i \in DOMAIN response[r].uploads : response[r].uploads[i] # ManifestPath(r)
            /\ <<BucketOf(r), ManifestPath(r)>> \in DOMAIN storage

C4_Witness ==
    \E r \in Reqs : Succeeded(r) /\ P(r) = 2 /\ V(r) = 3 /\ Len(response[r].uploads) = 8

\* the last successful upload of the request to the path before position k
LastUploadTo(r, path, k) ==
    CHOOSE j \in 1..(k - 1) :
        /\ trace[r][j].op = "upload" /\ trace[r][j].ok /\ trace[r][j].arg.path = path
        /\ \A i \in (j + 1)..(k - 1) :
              ~(trace[r][i].op = "upload" /\ trace[r][i].arg.path = path)

\* C5: when the upload of a page asset fails, the response is a failure
\* (success false, status 500, no pages or uploads payload), the failed upload
\* is the last operation of the request, and every object the request
\* uploaded before is in storage with the body it was uploaded with.
C5_UploadFailureAborts ==
    \A r \in Reqs : \A k \in DOMAIN trace[r] :
        (IsAssetUpload(r, k) /\ ~trace[r][k].ok) =>
            /\ Answered(r)
            /\ response[r].success = FALSE
            /\ response[r].status = 500
            /\ DOMAIN response[r] = {"sent", "status", "success", "error"}
            /\ k = Len(trace[r])
            /\ \A j \in 1..(k - 1) :
                  (trace[r][j].op = "upload" /\ trace[r][j].ok) =>
                      LET key == <<BucketOf(r), trace[r][j].arg.path>>
                      IN  /\ key \in DOMAIN storage
                          /\ storage[key] =
                                trace[r][LastUploadTo(r, trace[r][j].arg.path, k)].arg.body

C5_Witness ==
    \E r \in Reqs : \E k \in DOMAIN trace[r] :
        /\ IsAssetUpload(r, k) /\ ~trace[r][k].ok /\ Answered(r)
        /\ Cardinality({j \in 1..(k - 1) : IsAssetUpload(r, j) /\ trace[r][j].ok}) >= 3

\* the keys of the specs of a request: its variants and its thumbnail
VariantKeys(r) == {VariantsOf(r)[i].key : i \in 1..V(r)}
SpecKeys(r) == VariantKeys(r) \cup {ThumbnailOf(r).key}

ManifestPublished(r) ==
    /\ \E k \in Did(r, "upload") : IsManifestUpload(r, k)
    /\ <<BucketOf(r), ManifestPath(r)>> \in DOMAIN storage

PublishedManifest(r) == storage[<<BucketOf(r), ManifestPath(r)>>]

\* the path of page n stored under the key, when a spec of the request has it
StoredUnder(r, key, n) == AssetPath(BodyOf(r).editionId, key, n)

\* the four per-field rules of a manifest page, each on its own
ManifestFieldRules(r, n, page) ==
    /\ IF "low" \in SpecKeys(r)
       THEN "lowResImagePath" \in DOMAIN page
            /\ page.lowResImagePath = StoredUnder(r, "low", n)
       ELSE IF "medium" \in SpecKeys(r)
       THEN "lowResImagePath" \in DOMAIN page
            /\ page.lowResImagePath = StoredUnder(r, "medium", n)
       ELSE "lowResImagePath" \notin DOMAIN page
    /\ page.mediumImagePath =
          IF "medium" \in SpecKeys(r) THEN StoredUnder(r, "medium", n) ELSE Null
    /\ page.highResImagePath =
          IF "high" \in SpecKeys(r) THEN StoredUnder(r, "high", n) ELSE Null
    /\ page.thumbnailPath = StoredUnder(r, ThumbnailOf(r).key, n)

\* C8 (as stated): the per-field rules, and whenever the variants list omits
\* "low" but includes "medium", every page's lowResImagePath equals its
\* mediumImagePath.
C8_AsStated ==
    \A r \in Reqs :
        ManifestPublished(r) =>
            \A n \in DOMAIN PublishedManifest(r).pages :
                LET page == PublishedManifest(r).pages[n]
                IN  /\ ManifestFieldRules(r, n, page)
                    /\ ("low" \notin VariantKeys(r) /\ "medium" \in VariantKeys(r)) =>
                          /\ "lowResImagePath" \in DOMAIN page
                          /\ page.lowResImagePath = page.mediumImagePath

\* C8 (amended): the per-field rules read the page's asset map, which holds
\* the thumbnail under its key too; lowResImagePath equals mediumImagePath
\* whenever no spec of the request, variant or thumbnail, is keyed "low" and a
\* variant is keyed "medium"; thumbnailPath is the path uploaded under the
\* configured thumbnail key.
C8_ManifestFallback ==
    \A r \in Reqs :
        ManifestPublished(r) =>
            \A n \in DOMAIN PublishedManifest(r).pages :
                LET page == PublishedManifest(r).pages[n]
                IN  /\ ManifestFieldRules(r, n, page)
                    /\ ("low" \notin SpecKeys(r) /\ "medium" \in VariantKeys(r)) =>
                          /\ "lowResImagePath" \in DOMAIN page
                          /\ page.lowResImagePath = page.mediumImagePath
                    /\ \E k \in Did(r, "upload") :
                          trace[r][k].arg.path = page.thumbnailPath

C8_Witness ==
    \E r \in Reqs :
        /\ ManifestPublished(r)
        /\ VariantKeys(r) = {"medium"} /\ ThumbnailOf(r).key = "tiny"
        /\ Len(PublishedManifest(r).pages) = 2
        /\ PublishedManifest(r).pages[2].lowResImagePath = "e1/pages/medium/002.webp"
        /\ PublishedManifest(r).pages[2].thumbnailPath = "e1/pages/tiny/002.webp"

\* C9: in every published manifest of a request whose variant list omits
\* "low", every page has a lowResImagePath, the path of an asset the request
\* uploaded.
C9_LowResAlwaysPresent ==
    \A r \in Reqs :
        (ManifestPublished(r) /\ "low" \notin VariantKeys(r)) =>
            \A n \in DOMAIN PublishedManifest(r).pages :
                LET page == PublishedManifest(r).pages[n]
                IN  /\ "lowResImagePath" \in DOMAIN page
                    /\ \E k \in Did(r, "upload") :
                          trace[r][k].arg.path = page.lowResImagePath

\* the resize requests of a request, in the order made
ResizeEvents(r) == SelectSeq(trace[r], LAMBDA e : e.op = "resize")

\* the image file pdftoppm wrote for page n
PageFile(r, n) == CHOOSE f \in Range(loc[r].listing) : f.name = PdftoppmName(n, P(r))

\* C10: the k-th resize of a request is for page (k-1) div (V+1) + 1 and spec
\* (k-1) mod (V+1) + 1 (the thumbnail last); the width it requests is
\* min(spec.width, natural width) when the natural width is known, so never
\* above it, and spec.width when it is not.
C10_TargetWidth ==
    \A r \in Reqs : \A k \in DOMAIN ResizeEvents(r) :
        LET ev == ResizeEvents(r)[k].arg
            n == ((k - 1) \div (V(r) + 1)) + 1
            i == ((k - 1) % (V(r) + 1)) + 1
            spec == IF i <= V(r) THEN VariantsOf(r)[i] ELSE ThumbnailOf(r)
            file == PageFile(r, n)
        IN  /\ ev.page = n /\ ev.key = spec.key
            /\ IF "width" \in DOMAIN file
               THEN /\ ev.resize.width = (IF spec.width <= file.width
                                          THEN spec.width ELSE file.width)
                    /\ ev.resize.width <= file.width
               ELSE ev.resize.width = spec.width

C10_Witness ==
    \E r \in Reqs :
        /\ \E k \in DOMAIN ResizeEvents(r) :
              LET ev == ResizeEvents(r)[k].arg
              IN  ev.key = "high" /\ "height" \in DOMAIN ev.resize /\ ev.resize.width = 300
        /\ \E k \in DOMAIN ResizeEvents(r) :
              LET ev == ResizeEvents(r)[k].arg
              IN  ev.key = "tiny" /\ "width" \notin DOMAIN PageFile(r, ev.page)
                  /\ ev.resize.width = 200

\* the asset paths a request with these specs uploads for P pages, in order
RECURSIVE ExpectedUploads(_, _, _)
ExpectedUploads(r, pages, k) ==
    IF k > pages * (V(r) + 1) THEN <<>>
    ELSE LET n == ((k - 1) \div (V(r) + 1)) + 1
             i == ((k - 1) % (V(r) + 1)) + 1
             spec == IF i <= V(r) THEN VariantsOf(r)[i] ELSE ThumbnailOf(r)
         IN  <<AssetPath(BodyOf(r).editionId, spec.key, n)>>
                 \o ExpectedUploads(r, pages, k + 1)

\* the paths a request wrote objects to
PathsWritten(r) == {trace[r][k].arg.path : k \in Did(r, "upload")}

\* request a had been answered when request b was received
InSequence(a, b) == trace[b] # <<>> /\ a \in trace[b][1].arg

\* C6: the paths a successful request uploads to are
\* {editionId}/pages/{key}/{page number in 3 digits}.webp per page and spec and
\* {editionId}/manifest.json; when the same request succeeds twice in sequence
\* on the same PDF, both runs upload to the same paths and the keys of the
\* bucket after the second run are the keys after the first.
C6_DeterministicPaths ==
    /\ \A r \in Reqs :
          Succeeded(r) =>
              /\ response[r].uploads = ExpectedUploads(r, P(r), 1)
              /\ PathsWritten(r) = Range(response[r].uploads) \cup {ManifestPath(r)}
    /\ \A a, b \in Reqs :
          ( /\ Succeeded(a) /\ Succeeded(b) /\ InSequence(a, b)
            /\ req[a] = req[b] /\ P(a) = P(b) ) =>
              /\ response[a].uploads = response[b].uploads
              /\ PathsWritten(a) = PathsWritten(b)
              /\ DOMAIN storage = {<<BucketOf(a), q>> : q \in PathsWritten(a)}

C6_Witness ==
    \E a, b \in Reqs :
        /\ Succeeded(a) /\ Succeeded(b) /\ InSequence(a, b)
        /\ req[a] = req[b] /\ P(a) = 2 /\ P(b) = 2
        /\ Cardinality(DOMAIN storage) = 5

\* the page index a file name of the pool was written from
NumberOf(name) ==
    CHOOSE n \in {nd[1] : nd \in SortPool} :
        \E nd \in SortPool : nd[1] = n /\ name = PageName(n, nd[2])

\* C7: convertPdfToPng returns every listed page file, in strictly ascending
\* order of the page index in its name, whatever the order of the listing;
\* the pipeline numbers the pages 1..P by position in that order: the i-th
\* page entry has pageNumber i and its asset was rendered from the i-th file.
C7_NumericPageOrder ==
    \A r \in Reqs :
        LET pages == loc[r].pngPages
        IN  /\ Did(r, "pdftoppm") # {} =>
                  /\ Len(pages) = Len(loc[r].listing)
                  /\ Range(pages) = Range(loc[r].listing)
                  /\ \A i, j \in DOMAIN pages :
                        i < j => NumberOf(pages[i].name) < NumberOf(pages[j].name)
            /\ \A i \in DOMAIN loc[r].manifestPages :
                  /\ loc[r].manifestPages[i].pageNumber = i
                  /\ storage[<<BucketOf(r),
                               AssetPath(BodyOf(r).editionId, ThumbnailOf(r).key, i)>>].input
                        = pages[i].name
            /\ Succeeded(r) =>
                  /\ Len(response[r].pages) = Len(pages)
                  /\ \A i \in DOMAIN response[r].pages : response[r].pages[i].pageNumber = i

C7_Witness ==
    \E r \in Reqs :
        /\ Succeeded(r) /\ Len(loc[r].listing) = 3
        /\ loc[r].listing[1].name = PageName(10, 2)
        /\ loc[r].listing[2].name = PageName(9, 1)
        /\ loc[r].listing[3].name = PageName(2, 2)
        /\ loc[r].pngPages[2].name = PageName(9, 1)
        /\ loc[r].pngPages[3].name = PageName(10, 2)
        /\ response[r].pages[3].pageNumber = 3

\* the request leaves variants and thumbnail to their defaults
UsesDefaults(r) ==
    "variants" \notin DOMAIN BodyOf(r) /\ "thumbnail" \notin DOMAIN BodyOf(r)

\* C11: a successful request with the default variants and thumbnail over P
\* pages attempted exactly 4P asset uploads, all successful, and one manifest
\* upload; every page of the published manifest has lowResImagePath,
\* mediumImagePath, highResImagePath and thumbnailPath set to that page's own
\* low, medium, high and thumbnail paths, each an object of the bucket.
C11_DefaultsEndToEnd ==
    \A r \in Reqs :
        (Succeeded(r) /\ UsesDefaults(r)) =>
            LET e == BodyOf(r).editionId
            IN  /\ Cardinality({k \in Attempts(r, "upload") : IsAssetUpload(r, k)}) = 4 * P(r)
                /\ Cardinality({k \in Did(r, "upload") : IsAssetUpload(r, k)}) = 4 * P(r)
                /\ Cardinality({k \in Attempts(r, "upload") : IsManifestUpload(r, k)}) = 1
                /\ ManifestPublished(r)
                /\ Len(PublishedManifest(r).pages) = P(r)
                /\ \A n \in 1..P(r) :
                      LET page == PublishedManifest(r).pages[n]
                      IN  /\ page.pageNumber = n
                          /\ "lowResImagePath" \in DOMAIN page
                          /\ page.lowResImagePath = AssetPath(e, "low", n)
                          /\ page.mediumImagePath = AssetPath(e, "medium", n)
                          /\ page.highResImagePath = AssetPath(e, "high", n)
                          /\ page.thumbnailPath = AssetPath(e, "thumbnail", n)
                          /\ \A key \in {"low", "medium", "high", "thumbnail"} :
                                <<BucketOf(r), AssetPath(e, key, n)>> \in DOMAIN storage

C11_Witness ==
    \E r \in Reqs :
        /\ Succeeded(r) /\ UsesDefaults(r) /\ P(r) = 2
        /\ Cardinality({k \in Did(r, "upload") : IsAssetUpload(r, k)}) = 8
        /\ Cardinality(DOMAIN storage) = 9
        /\ PublishedManifest(r).pages[1].highResImagePath = "e1/pages/high/001.webp"

\* the bucket after the successful uploads a request made are applied, in the
\* order it made them, to a store: the request run on its own from that store
\* (the handler reads nothing back from the storage service)
RECURSIVE ApplyUploads(_, _, _)
ApplyUploads(store, r, k) ==
    IF k > Len(trace[r]) THEN store
    ELSE LET e == trace[r][k]
         IN  ApplyUploads(IF e.op = "upload" /\ e.ok
                          THEN [key \in DOMAIN store \cup {<<BucketOf(r), e.arg.path>>} |->
                                   IF key = <<BucketOf(r), e.arg.path>>
                                   THEN e.arg.body ELSE store[key]]
                          ELSE store,
                          r, k + 1)

RunAlone(store, r) == ApplyUploads(store, r, 1)

\* every path the request tried to write
PathsAttempted(r) == {trace[r][k].arg.path : k \in Attempts(r, "upload")}

\* C12: two requests with different editionIds on the same bucket, however
\* their steps interleave, never try to write a common path, and the bucket
\* holds what running the one and then the other, in either order, leaves.
C12_DisjointEditions ==
    \A a, b \in Reqs :
        ( /\ a # b /\ pc[a] # "idle" /\ pc[b] # "idle"
          /\ BucketOf(a) = BucketOf(b)
          /\ BodyOf(a).editionId # BodyOf(b).editionId ) =>
            /\ PathsAttempted(a) \cap PathsAttempted(b) = {}
            /\ storage = RunAlone(RunAlone([k \in {} |-> Null], a), b)
            /\ storage = RunAlone(RunAlone([k \in {} |-> Null], b), a)

C12_Witness ==
    /\ Succeeded(1) /\ Succeeded(2)
    /\ BodyOf(1).editionId = "e1" /\ BodyOf(2).editionId = "e2"
    /\ ~InSequence(1, 2) /\ ~InSequence(2, 1)
    /\ P(1) = 2 /\ P(2) = 1
    /\ Cardinality(DOMAIN storage) = 8

-----------------------------------------------------------------------------
(* SpecLive: one request under the fairness the runtime gives.  The steps  *)
(* on the local file system and in the image library (mkdtemp, mkdir,      *)
(* readFile and metadata, resize and encode, rm) complete once started, so *)
(* the handler resumes after them.  The handler resumes after axios.get    *)
(* (line 75), execFile of pdftoppm (line 58) and the storage upload (lines *)
(* 98-103) when the remote server or the subprocess answers: none of the   *)
(* three calls is given a timeout or a signal, so nothing in the program   *)
(* makes them complete, and they get no fairness.                          *)

LocalSteps(r) ==
    CreateTempDir(r) \/ MkdirPng(r) \/ ReadPage(r) \/ Render(r) \/ Cleanup(r)

SpecLive == Init /\ [][Next]_vars /\ WF_vars(LocalSteps(1))

\* C13: every received request is eventually answered, and answered once:
\* the response, once sent, is never replaced; no download, rasterizer run
\* or upload keeps the request waiting for ever.
C13_EventuallyAnswered ==
    /\ \A r \in Reqs : (pc[r] # "idle") ~> Answered(r)
    /\ [][\A r \in Reqs : Answered(r) => response'[r] = response[r]]_vars

-----------------------------------------------------------------------------
\* the i-th spec of a request: its variants in list order, then the thumbnail
SpecAt(r, i) == IF i <= V(r) THEN VariantsOf(r)[i] ELSE ThumbnailOf(r)

\* what an event of the trace is a step of
StepOf(e) ==
    IF e.op = "resize" THEN <<"resize", e.arg.page, e.arg.key>>
    ELSE IF e.op = "upload" THEN <<"upload", e.arg.path>>
    ELSE IF e.op = "readPage" THEN <<"readPage", e.arg>>
    ELSE <<e.op>>

RECURSIVE SpecSteps(_, _, _)
SpecSteps(r, n, i) ==
    IF i > V(r) + 1 THEN <<>>
    ELSE << <<"resize", n, SpecAt(r, i).key>>,
            <<"upload", AssetPath(BodyOf(r).editionId, SpecAt(r, i).key, n)>> >>
         \o SpecSteps(r, n, i + 1)

RECURSIVE PageSteps(_, _)
PageSteps(r, n) ==
    IF n > P(r) THEN <<>>
    ELSE << <<"readPage", n>> >> \o SpecSteps(r, n, 1) \o PageSteps(r, n + 1)

\* the steps of a request that nothing stops, in order
Pipeline(r) ==
    << <<"receive">>, <<"mkdtemp">>, <<"mkdir">>, <<"download">>, <<"pdftoppm">> >>
    \o PageSteps(r, 1)
    \o << <<"upload", ManifestPath(r)>>, <<"rm">> >>

HasFailed(r) == \E k \in DOMAIN trace[r] : ~trace[r][k].ok

\* the steps taken so far are the first steps of the pipeline, each taken
\* once; a failed step is the last one and is answered with a failure; a
\* success is answered after the whole pipeline
StepsInOrder(r) ==
    /\ trace[r] # <<>> => trace[r][1].op = "receive"
    /\ Len(trace[r]) >= 2 =>
          /\ Len(trace[r]) <= Len(Pipeline(r))
          /\ \A k \in DOMAIN trace[r] : StepOf(trace[r][k]) = Pipeline(r)[k]
    /\ \A k \in DOMAIN trace[r] :
          (~trace[r][k].ok /\ trace[r][k].op # "rm") =>
              k = Len(trace[r]) /\ Answered(r) /\ ~response[r].success
    /\ Succeeded(r) => Len(trace[r]) = Len(Pipeline(r))

\* C14: the steps of a request are taken in the order validate, download,
\* rasterize, then per page in ascending page number the variants in list
\* order and the thumbnail (render, upload), then the manifest upload, then
\* the response; no step is taken twice; once a step has failed or the
\* response is sent the request takes no further step.
C14_LinearPipeline ==
    /\ [](\A r \in Reqs : StepsInOrder(r))
    /\ [][\A r \in Reqs :
            (Answered(r) \/ HasFailed(r)) => trace'[r] = trace[r]]_vars

C14_Witness ==
    \E r \in Reqs :
        /\ Succeeded(r) /\ P(r) = 2 /\ V(r) = 2
        /\ VariantsOf(r)[1].key = "high" /\ VariantsOf(r)[2].key = "low"
        /\ ThumbnailOf(r).key = "tiny"
        /\ Len(trace[r]) = 21

-----------------------------------------------------------------------------
\* the positions, among the specs of a request, of those with the key
SpecsKeyed(r, key) == {i \in 1..(V(r) + 1) : SpecAt(r, i).key = key}

\* two specs of the request (two variants, or a variant and the thumbnail)
\* have the same key
Collides(r) == \E key \in SpecKeys(r) : Cardinality(SpecsKeyed(r, key)) > 1

Max(S) == CHOOSE x \in S : \A y \in S : y <= x

\* the successful uploads of the request to the path
UploadsTo(r, path) == {k \in Did(r, "upload") : trace[r][k].arg.path = path}

\* the successful renderings of page n for a spec with the key
RendersOf(r, n, key) ==
    {k \in Did(r, "resize") : trace[r][k].arg.page = n /\ trace[r][k].arg.key = key}

\* C15: a request with valid fields whose specs share a key is not rejected;
\* every spec is rendered and uploaded, the colliding ones to one path per
\* page, where the object is the one uploaded last (for a collision with the
\* thumbnail, the thumbnail's rendering); the page's asset map has one entry
\* per key and uploads lists the path once per spec with that key.
C15_KeyCollisionOverwrites ==
    \A r \in Reqs :
        (pc[r] # "idle" /\ Authorized(r) /\ ~MissingField(r) /\ Collides(r)) =>
            /\ Answered(r) => response[r].status # 400
            /\ Len(trace[r]) = 1 => pc[r] = "createTempDir"
            /\ \A n \in 1..P(r) : \A key \in SpecKeys(r) :
                  LET path == AssetPath(BodyOf(r).editionId, key, n)
                      ups == UploadsTo(r, path)
                      last == SpecAt(r, Max(SpecsKeyed(r, key)))
                      object == storage[<<BucketOf(r), path>>]
                  IN  /\ Cardinality(ups) <= Cardinality(SpecsKeyed(r, key))
                      /\ ups # {} => object = trace[r][Max(ups)].arg.body
                      /\ Cardinality(ups) = Cardinality(SpecsKeyed(r, key)) =>
                            /\ object.webp.quality = last.quality
                            /\ ("height" \in DOMAIN object.resize) = ("height" \in DOMAIN last)
                      /\ Succeeded(r) =>
                            /\ Cardinality(RendersOf(r, n, key)) = Cardinality(SpecsKeyed(r, key))
                            /\ Cardinality(ups) = Cardinality(SpecsKeyed(r, key))
                            /\ Cardinality({i \in DOMAIN response[r].uploads :
                                               response[r].uploads[i] = path})
                                  = Cardinality(SpecsKeyed(r, key))
                            /\ response[r].pages[n].assets[key].path = path
            /\ Succeeded(r) =>
                  /\ Len(response[r].uploads) = P(r) * (V(r) + 1)
                  /\ \A n \in 1..P(r) : DOMAIN response[r].pages[n].assets = SpecKeys(r)

C15_Witness ==
    \E r \in Reqs :
        /\ Succeeded(r) /\ P(r) = 2 /\ V(r) = 2
        /\ VariantsOf(r)[1].key = "low" /\ VariantsOf(r)[2].key = "medium"
        /\ ThumbnailOf(r).key = "low"
        /\ storage[<<"editions", "e1/pages/low/002.webp">>].webp.quality = 60
        /\ Len(response[r].uploads) = 6
        /\ Cardinality(DOMAIN storage) = 5

-----------------------------------------------------------------------------
\* the message the catch block answers with when the step throws
ErrorOf(e) ==
    IF e.op = "mkdtemp" THEN "mkdtemp failed"
    ELSE IF e.op = "mkdir" THEN "mkdir failed"
    ELSE IF e.op = "download" THEN "download failed"
    ELSE IF e.op = "pdftoppm" THEN "pdftoppm failed: spawn pdftoppm ENOENT or exit code 1"
    ELSE IF e.op = "readPage" THEN "Input buffer contains unsupported image format"
    ELSE IF e.op = "resize" THEN "sharp failed"
    ELSE "Failed to upload " \o e.arg.path \o ": storage error"

\* C16: when every step through the manifest upload succeeded and deleting
\* the temp directory fails, the response is the success payload all the
\* same; when a step of the pipeline failed, the response is the failure
\* carrying that step's error, never an error of the cleanup.
C16_CleanupNeverMasks ==
    \A r \in Reqs :
        /\ \A k \in Attempts(r, "rm") :
              /\ \A j \in 1..(k - 1) : trace[r][j].ok
              /\ \E j \in 1..(k - 1) : IsManifestUpload(r, j)
              /\ Answered(r) /\ response[r].success /\ response[r].status = 200
              /\ "error" \notin DOMAIN response[r]
              /\ response[r].totalPages = P(r)
              /\ response[r].manifestPath = ManifestPath(r)
        /\ \A k \in DOMAIN trace[r] :
              (~trace[r][k].ok /\ trace[r][k].op # "rm") =>
                  /\ Answered(r) /\ ~response[r].success
                  /\ response[r].error = ErrorOf(trace[r][k])
        /\ (Answered(r) /\ Len(trace[r]) >= 2) =>
              (response[r].success <=>
                  \A k \in DOMAIN trace[r] :
                      (trace[r][k].ok \/ trace[r][k].op = "rm")
                      /\ (trace[r][k].op = "pdftoppm" => P(r) > 0))

C16_Witness ==
    \E r \in Reqs :
        /\ \E k \in Attempts(r, "rm") : ~trace[r][k].ok
        /\ Succeeded(r) /\ P(r) = 2
        /\ TempDirOf(r) \in tmpDirs

\* C17: when pdftoppm exits successfully and leaves no page file, the
\* request is answered with the failure "No pages produced during PDF
\* conversion" and has rendered nothing and attempted no upload: no page
\* asset and no manifest is in storage.
C17_ZeroPagesFails ==
    \A r \in Reqs :
        (Did(r, "pdftoppm") # {} /\ P(r) = 0) =>
            /\ Answered(r) /\ ~response[r].success /\ response[r].status = 500
            /\ response[r].error = "No pages produced during PDF conversion"
            /\ Attempts(r, "resize") = {}
            /\ Attempts(r, "upload") = {}
            /\ \A key \in DOMAIN storage : key[1] # BucketOf(r)

C17_Witness ==
    \E r \in Reqs :
        /\ Did(r, "pdftoppm") # {} /\ P(r) = 0 /\ loc[r].pngPages = <<>>
        /\ Answered(r) /\ response[r].status = 500

\* the X-Api-Key header of the request ('' when there is none)
ApiKeyOf(r) == Get(Get(req[r], "headers", EmptyObject), "x-api-key", "")

\* C18: with a service secret configured, a request whose X-Api-Key header is
\* missing or different is answered 401 with success false, whatever its
\* fields, having created no temp directory and called no download,
\* rasterizer or upload; with no secret configured no request is answered
\* 401: whatever its header it is validated, answered 400 when a required
\* field is missing and started otherwise.
C18_SecretCheck ==
    \A r \in Reqs :
        pc[r] # "idle" =>
            /\ (SERVICE_SECRET # "" /\ ApiKeyOf(r) # SERVICE_SECRET) =>
                  /\ Answered(r) /\ ~response[r].success
                  /\ response[r].status = 401
                  /\ \A k \in DOMAIN trace[r] : trace[r][k].op = "receive"
                  /\ TempDirOf(r) \notin tmpDirs
                  /\ storage = [k \in {} |-> Null]
            /\ (SERVICE_SECRET = "" \/ ApiKeyOf(r) = SERVICE_SECRET) =>
                  /\ Answered(r) => response[r].status # 401
                  /\ Len(trace[r]) = 1 =>
                        IF MissingField(r)
                        THEN Answered(r) /\ response[r].status = 400
                        ELSE pc[r] = "createTempDir"

C18_Witness ==
    \E r \in Reqs :
        /\ SERVICE_SECRET = "s3cret" /\ ApiKeyOf(r) = "wrong"
        /\ MissingField(r)
        /\ Answered(r) /\ response[r].status = 401

-----------------------------------------------------------------------------
\* the path is an object of the request's bucket
InBucket(r, path) == <<BucketOf(r), path>> \in DOMAIN storage

\* the paths a page of a manifest refers to
ManifestRefs(page) ==
    {page[f] : f \in DOMAIN page \cap {"lowResImagePath", "mediumImagePath",
                                       "highResImagePath", "thumbnailPath"}} \ {Null}

\* C19: a request answered with success has uploaded its manifest
\* successfully, and, whatever other requests did meanwhile, every path of
\* the response's uploads, every path of the asset map of each page and every
\* path the manifest stored at {editionId}/manifest.json refers to is an
\* object of the bucket.
C19_SuccessAfterPublish ==
    \A r \in Reqs :
        Succeeded(r) =>
            /\ \E k \in Did(r, "upload") :
                  /\ IsManifestUpload(r, k)
                  /\ \A j \in Attempts(r, "upload") : j <= k
            /\ InBucket(r, response[r].manifestPath)
            /\ response[r].manifestPath = ManifestPath(r)
            /\ \A i \in DOMAIN response[r].uploads : InBucket(r, response[r].uploads[i])
            /\ \A n \in DOMAIN response[r].pages :
                  \A key \in DOMAIN response[r].pages[n].assets :
                      InBucket(r, response[r].pages[n].assets[key].path)
            /\ \A n \in DOMAIN PublishedManifest(r).pages :
                  \A path \in ManifestRefs(PublishedManifest(r).pages[n]) :
                      InBucket(r, path)

C19_Witness ==
    /\ Succeeded(1) /\ Succeeded(2)
    /\ BodyOf(1).editionId = "e1" /\ BodyOf(2).editionId = "e1"
    /\ ~InSequence(1, 2) /\ ~InSequence(2, 1)
    /\ P(1) = 2 /\ P(2) = 1
    /\ Len(PublishedManifest(1).pages) = 1
    /\ Len(response[1].uploads) = 4

====
